---- MODULE Spec2Model ----
(***************************************************************************)
(* QuizRush Campaign Engine (src/main.py).                                 *)
(*                                                                         *)
(* Server side: the users table and the handlers register, leaderboard,    *)
(* submit_score and the scheduled job update_leaderboard_eligibility.      *)
(* Client side: the quiz session held in the page's `state` object and the *)
(* handlers startLevel, renderQuestion, startTimer, selectAnswer, nextQ    *)
(* and endLevel.                                                           *)
(***************************************************************************)
EXTENDS Integers, Sequences, FiniteSets, TLC

\* ------------------------------------------------------------------ bounds
MaxNow == 122          \* the clock stops advancing here (minutes)
MaxInflight == 2       \* requests the server handles at the same time
MaxLevels == 1         \* levels one session starts

\* ------------------------------------------------------- program constants
TwoHours == 120        \* timedelta(hours=2), in minutes
LeaderboardLimit == 10 \* .limit(10)
InitialRetries == 1    \* Column(Integer, default=1)
QuestionSeconds == 30  \* state.timeLeft = 30
BasePoints == 100      \* 100 + ...
StreakBonus == 50      \* ... (state.streak >= 3 ? 50 : 0)
TickInterval == 1000   \* setInterval(..., 1000)
TimeoutDelay == 2000   \* setTimeout(nextQ, 2000) after the time is up
AnswerDelay == 2200    \* setTimeout(nextQ, 2200) after a selection

\* ------------------------------------------------------------ input sets
NoRef == "None"                                \* referred_by: str | None = None
Codes == {"AAAAAAAA", "BBBBBBBB"}              \* values random.choices may draw
MoreCodes == Codes \cup {"CCCCCCCC"}
Names == {"ama"}
Phones == {"024"}
RefInputs == Codes \cup {NoRef, ""}
CandidateScores == {300, 500}
Deltas == {59, 60, 61}                         \* minutes between two events

VARIABLES
    users,     \* the users table: a sequence of rows, a row's id is its index
    now,       \* datetime.now(timezone.utc) / func.now(), in minutes
    last,      \* the most recent server operation and its response
    reqs,      \* the requests being handled concurrently, one per worker
    finished,  \* <<user id, score>> of every submit-score request answered 200
    credited,  \* <<referrer id, new user id>> of every referral lookup that hit
    job,       \* the scheduled sweep: where it is and the rows it loaded
    state,     \* the page's `state` object
    dom,       \* what the page shows: the screen and the rendered options
    timeouts,  \* setTimeout(nextQ, ...) callbacks scheduled and not yet run,
               \* oldest first: how many ticks each may still see before it runs
    awaiting,  \* async handlers suspended at an await: what each waits for
    reported,  \* the scores sent with POST /submit-score, in order
    started,   \* how many times startLevel has been called
    event      \* the most recent client event and what it did

serverVars == <<users, now, last>>
concVars == <<reqs, finished, credited, job>>
clientVars == <<state, dom, timeouts, awaiting, reported, started, event>>
vars == <<users, now, last, reqs, finished, credited, job,
          state, dom, timeouts, awaiting, reported, started, event>>

UserIds == 1..Len(users)

\* a worker that handles no request
Idle == [op |-> "idle", pc |-> "idle", id |-> 0, score |-> 0,
         refby |-> NoRef, seen |-> 0]

\* the scheduled job between two runs
IdleJob == [pc |-> "idle", loaded |-> <<>>, flips |-> {}]

\* ------------------------------------------------------------ users table
\* class User: the column defaults of a freshly inserted row
NewUser(name, phone, code, refby) ==
    [name |-> name, phone |-> phone, score |-> 0,
     referral_code |-> code, referred_by |-> refby,
     retries_left |-> InitialRetries,
     eligible_for_leaderboard |-> FALSE, created_at |-> now]

\* a lookup without its filter: db.query(User).first()
FindByCodeUnfiltered(tbl, code) == IF Len(tbl) = 0 THEN 0 ELSE 1

\* db.query(User).filter(User.referral_code == code).first()
FindByCode(tbl, code) ==
    LET hits == {i \in 1..Len(tbl) : tbl[i].referral_code = code}
    IN  IF hits = {} THEN 0 ELSE CHOOSE i \in hits : \A j \in hits : i <= j

\* a referral_code column declared without unique=True
UniqueViolationIgnored(tbl, code) == FALSE

\* referral_code = Column(String, unique=True): the insert of a second row
\* with the same code violates the constraint
UniqueViolation(tbl, code) ==
    \E i \in 1..Len(tbl) : tbl[i].referral_code = code

\* `if payload.referred_by:` -- None and the empty string are falsy
Truthy(refby) == refby # NoRef /\ refby # ""

\* a register that forgets the referral credit
CreditReferrerForgotten(tbl, ref) == tbl

\* a register that takes retries away from the referrer
CreditReferrerDebits(tbl, ref) ==
    [tbl EXCEPT ![ref].retries_left = @ - 2]

\* ref.retries_left += 1
CreditReferrer(tbl, ref) ==
    [tbl EXCEPT ![ref].retries_left = @ + 1]

\* POST /register
Register(name, phone, refby, code) ==
    /\ IF UniqueViolation(users, code)
       THEN \* the commit of the insert raises IntegrityError
            /\ users' = users
            /\ last' = [op |-> "register", status |-> 500, id |-> 0,
                        arg |-> refby, ret |-> 0, rows |-> <<>>,
                        body |-> <<>>]
       ELSE LET inserted == Append(users, NewUser(name, phone, code, refby))
                id == Len(inserted)
                ref == IF Truthy(refby) THEN FindByCode(inserted, refby) ELSE 0
                after == IF ref # 0 THEN CreditReferrer(inserted, ref)
                         ELSE inserted
            IN  /\ users' = after
                /\ last' = [op |-> "register", status |-> 200, id |-> id,
                            arg |-> refby, ret |-> after[id].retries_left,
                            rows |-> <<>>, body |-> <<>>]
    /\ UNCHANGED <<now, concVars, clientVars>>

\* a submit_score that overwrites without comparing
KeepMaxOverwrite(stored, score) == score

\* POST /submit-score: keep the larger of the stored and the reported score
KeepMax(stored, score) == IF score > stored THEN score ELSE stored

\* a submit_score that creates the row it did not find
SubmitScoreUpsert(user_id, score) ==
    /\ IF user_id \notin UserIds
       THEN /\ users' = Append(users,
                         [NewUser("", "", "", NoRef) EXCEPT !.score = score])
            /\ last' = [op |-> "submit_score", status |-> 200, id |-> user_id,
                        arg |-> score, ret |-> score, rows |-> <<>>,
                        body |-> <<>>]
       ELSE /\ users' = [users EXCEPT
                           ![user_id].score = KeepMax(@, score)]
            /\ last' = [op |-> "submit_score", status |-> 200, id |-> user_id,
                        arg |-> score,
                        ret |-> users'[user_id].score,
                        rows |-> <<>>, body |-> <<>>]
    /\ UNCHANGED <<now, concVars, clientVars>>

SubmitScore(user_id, score) ==
    /\ IF user_id \notin UserIds
       THEN \* raise HTTPException(404, "User not found")
            /\ users' = users
            /\ last' = [op |-> "submit_score", status |-> 404, id |-> user_id,
                        arg |-> score, ret |-> 0, rows |-> <<>>,
                        body |-> <<>>]
       ELSE /\ users' = [users EXCEPT
                           ![user_id].score = KeepMax(@, score)]
            /\ last' = [op |-> "submit_score", status |-> 200, id |-> user_id,
                        arg |-> score,
                        ret |-> users'[user_id].score,
                        rows |-> <<>>, body |-> <<>>]
    /\ UNCHANGED <<now, concVars, clientVars>>

\* a sweep that compares with > instead of >=
OldEnoughStrict(u, t) == t - u.created_at > TwoHours

\* datetime.now(timezone.utc) - user.created_at >= timedelta(hours=2)
OldEnough(u, t) == t - u.created_at >= TwoHours

\* a query that picks the rows already eligible
SweepSelectsEligible(u) == u.eligible_for_leaderboard

\* .filter(User.eligible_for_leaderboard == False)
SweepSelects(u) == ~u.eligible_for_leaderboard

\* a sweep without its filter that flips the flag of every old-enough row
SweepRowToggles(u, t) ==
    IF OldEnough(u, t)
    THEN [u EXCEPT !.eligible_for_leaderboard = ~@]
    ELSE u

\* a sweep that stamps the row it makes eligible
SweepRowRestamps(u, t) ==
    IF SweepSelects(u) /\ OldEnough(u, t)
    THEN [u EXCEPT !.eligible_for_leaderboard = TRUE, !.created_at = t]
    ELSE u

\* the scheduled job update_leaderboard_eligibility
SweepRow(u, t) ==
    IF SweepSelects(u) /\ OldEnough(u, t)
    THEN [u EXCEPT !.eligible_for_leaderboard = TRUE]
    ELSE u

Sweep ==
    /\ users' = [i \in UserIds |-> SweepRow(users[i], now)]
    /\ last' = [op |-> "sweep", status |-> 0, id |-> 0, arg |-> NoRef,
                ret |-> 0, rows |-> <<>>, body |-> <<>>]
    /\ UNCHANGED <<now, concVars, clientVars>>

\* a leaderboard query without its filter
LeaderboardUnfiltered(tbl) == 1..Len(tbl)

\* .filter(User.eligible_for_leaderboard == True)
LeaderboardFilter(tbl) ==
    {i \in 1..Len(tbl) : tbl[i].eligible_for_leaderboard}

\* an ascending order_by
FirstByScoreAsc(tbl, S) ==
    {i \in S : \A j \in S : tbl[i].score <= tbl[j].score}

\* the row .order_by(User.score.desc()) may put first among the rows S;
\* rows of equal score come in an order the database chooses
FirstByScoreDesc(tbl, S) ==
    {i \in S : \A j \in S : tbl[j].score <= tbl[i].score}

\* .order_by(User.score.desc()).limit(k).all(): every result the database
\* may return, as sequences of row ids
RECURSIVE OrderByLimit(_, _, _)
OrderByLimit(tbl, S, k) ==
    IF k = 0 \/ S = {} THEN {<<>>}
    ELSE UNION {{<<i>> \o r : r \in OrderByLimit(tbl, S \ {i}, k - 1)} :
                i \in FirstByScoreDesc(tbl, S)}

LeaderboardRows(tbl) ==
    OrderByLimit(tbl, LeaderboardFilter(tbl), LeaderboardLimit)

\* [{"rank": i+1, "name": u.name, "score": u.score} for i, u in enumerate(users)]
LeaderboardBody(tbl, rows) ==
    [i \in 1..Len(rows) |->
        [rank |-> i, name |-> tbl[rows[i]].name, score |-> tbl[rows[i]].score]]

\* GET /leaderboard
Leaderboard ==
    /\ \E rows \in LeaderboardRows(users) :
          last' = [op |-> "leaderboard", status |-> 200, id |-> 0,
                   arg |-> NoRef, ret |-> 0, rows |-> rows,
                   body |-> LeaderboardBody(users, rows)]
    /\ UNCHANGED <<users, now, concVars, clientVars>>

\* time passes between two requests
Advance(d) ==
    /\ now + d <= MaxNow
    /\ now' = now + d
    /\ UNCHANGED <<users, last, concVars, clientVars>>

\* ------------------------------------------------------- the quiz session
Letters == <<"A", "B", "C", "D">>              \* const letters = ['A','B','C','D']
Fallback == <<"D", "D", "D", "D", "D">>        \* the answers of the fallback set
Generated == <<"A", "B", "C", "D", "A">>       \* the answers of a generated set
QuestionSets == {Fallback, Generated}
Levels == {1}
ClickTimes == {30, 15}   \* the timeLeft values at which the user clicks

\* let state = {...}, lines 984-992, and the landing screen
InitClient ==
    /\ state = [registered |-> FALSE, retriesLeft |-> InitialRetries,
                totalScore |-> 0, currentLevel |-> 1,
                questions |-> <<>>, currentQ |-> 0, levelScore |-> 0,
                correctCount |-> 0, streak |-> 0, bestStreak |-> 0,
                answered |-> FALSE, timerInterval |-> FALSE, countdowns |-> 0,
                timeLeft |-> QuestionSeconds, completedLevels |-> <<>>]
    /\ dom = [screen |-> "s-land", answer |-> "none", locked |-> FALSE,
              correct |-> {}, wrong |-> {}, verdict |-> 0]
    /\ timeouts = <<>>
    /\ awaiting = [questions |-> 0, submit |-> 0]
    /\ reported = <<>>
    /\ started = 0
    /\ event = [name |-> "load", pts |-> 0]

\* a streak bonus that starts one answer late
PointsLateBonus(timeLeft, streak) ==
    BasePoints + (timeLeft * 3) + (IF streak > 3 THEN StreakBonus ELSE 0)

\* const pts = 100 + (state.timeLeft * 3) + (state.streak >= 3 ? 50 : 0)
Points(timeLeft, streak) ==
    BasePoints + (timeLeft * 3) + (IF streak >= 3 THEN StreakBonus ELSE 0)

\* lockOptions(chosenLetter, correctLetter) on the rendered options
LockOptions(d, chosenLetter, correctLetter) ==
    [d EXCEPT !.locked = TRUE,
              !.correct = @ \cup {correctLetter},
              !.wrong = @ \cup ({chosenLetter} \ {correctLetter, "null"})]

\* stopTimer(): clearInterval(state.timerInterval) ends the interval the
\* handle names, if it still runs; countdowns is the number of intervals
\* that run
StopTimer(st) ==
    [st EXCEPT !.timerInterval = FALSE,
               !.countdowns = IF st.timerInterval THEN @ - 1 ELSE @]

\* the synchronous part of endLevel(): up to the await of the score report
EndLevelCall(st) ==
    [StopTimer(st) EXCEPT !.completedLevels = Append(@, st.currentLevel)]

\* a startTimer() that does not stop the countdown that runs
RenderStateKeepsTimer(st) ==
    [st EXCEPT !.answered = FALSE, !.timeLeft = QuestionSeconds,
               !.timerInterval = TRUE, !.countdowns = @ + 1]

\* renderQuestion() when state.questions[state.currentQ] exists:
\* the state part, then startTimer(): stopTimer() and a new interval
RenderState(st) ==
    [StopTimer(st) EXCEPT !.answered = FALSE, !.timeLeft = QuestionSeconds,
                          !.timerInterval = TRUE, !.countdowns = @ + 1]

\* renderQuestion(): the options are rebuilt with onclick bound to q.answer
RenderDom(d, st) ==
    [d EXCEPT !.answer = st.questions[st.currentQ + 1], !.locked = FALSE,
              !.correct = {}, !.wrong = {}]

\* `if (!q) return endLevel()` and `state.currentQ >= state.questions.length`
NoQuestion(st) == st.currentQ + 1 > Len(st.questions)

\* renderQuestion(), lines 1056-1079, entered with state st while aw is awaited
RenderQuestion(st, aw) ==
    IF NoQuestion(st)
    THEN /\ state' = EndLevelCall(st)
         /\ reported' = Append(reported, st.totalScore)
         /\ awaiting' = [aw EXCEPT !.submit = @ + 1]
         /\ UNCHANGED dom
    ELSE /\ state' = RenderState(st)
         /\ dom' = RenderDom(dom, st)
         /\ awaiting' = aw
         /\ UNCHANGED reported

\* handleRegister(): state.retriesLeft is the retries_left of the response
\* for the new user, or 1 when the request failed; the page moves on to the
\* level cards
HandleRegister ==
    /\ dom.screen = "s-land"
    /\ state' = [state EXCEPT !.registered = TRUE,
                              !.retriesLeft = InitialRetries]
    /\ dom' = [dom EXCEPT !.screen = "s-levels"]
    /\ event' = [name |-> "handleRegister", pts |-> 0]
    /\ UNCHANGED <<timeouts, awaiting, reported, started, serverVars, concVars>>

\* a startLevel that also starts the running total again
StartLevelResetsTotal(level) ==
    /\ dom.screen = "s-levels"
    /\ started' = started + 1
    /\ state' = [state EXCEPT !.currentLevel = level, !.questions = <<>>,
                              !.currentQ = 0, !.levelScore = 0,
                              !.totalScore = 0,
                              !.correctCount = 0, !.streak = 0,
                              !.bestStreak = 0, !.answered = FALSE]
    /\ dom' = [dom EXCEPT !.screen = "s-quiz"]
    /\ awaiting' = [awaiting EXCEPT !.questions = @ + 1]
    /\ event' = [name |-> "startLevel", pts |-> 0]
    /\ UNCHANGED <<timeouts, reported, serverVars, concVars>>

\* startLevel(level), lines 1028-1041: up to the await of the questions;
\* a level card is clickable whether or not the level was completed before
StartLevel(level) ==
    /\ dom.screen = "s-levels"
    /\ started' = started + 1
    /\ state' = [state EXCEPT !.currentLevel = level, !.questions = <<>>,
                              !.currentQ = 0, !.levelScore = 0,
                              !.correctCount = 0, !.streak = 0,
                              !.bestStreak = 0, !.answered = FALSE]
    /\ dom' = [dom EXCEPT !.screen = "s-quiz"]
    /\ awaiting' = [awaiting EXCEPT !.questions = @ + 1]
    /\ event' = [name |-> "startLevel", pts |-> 0]
    /\ UNCHANGED <<timeouts, reported, serverVars, concVars>>

\* startLevel(level), lines 1042-1053: the questions arrive, renderQuestion()
QuestionsArrive(qs) ==
    /\ awaiting.questions > 0
    /\ RenderQuestion([state EXCEPT !.questions = qs],
                      [awaiting EXCEPT !.questions = @ - 1])
    /\ event' = [name |-> "questions", pts |-> 0]
    /\ UNCHANGED <<timeouts, started, serverVars, concVars>>

\* setTimeout(nextQ, delay): interval callbacks are TickInterval apart and the
\* first comes TickInterval after a render, so at most delay \div TickInterval
\* of them run before nextQ does
Schedule(q, delay) == Append(q, delay \div TickInterval)

\* one interval callback passes for every scheduled nextQ
Elapse(q) == [i \in 1..Len(q) |-> q[i] - 1]

\* the setInterval callback of startTimer(), lines 1083-1096
Tick ==
    /\ state.timerInterval
    /\ \A i \in 1..Len(timeouts) : timeouts[i] > 0
    /\ LET ticked == [state EXCEPT !.timeLeft = @ - 1]
       IN  IF ticked.timeLeft <= 0
           THEN IF ~ticked.answered
                THEN IF NoQuestion(ticked)
                     THEN \* state.questions[state.currentQ] is undefined:
                          \* reading its .answer throws after the streak
                          \* was reset, nothing is locked or scheduled
                          /\ state' = [StopTimer(ticked) EXCEPT !.streak = 0]
                          /\ timeouts' = Elapse(timeouts)
                          /\ UNCHANGED dom
                          /\ event' = [name |-> "timeoutThrows", pts |-> 0]
                     ELSE /\ state' = [StopTimer(ticked) EXCEPT !.streak = 0]
                          /\ dom' = LockOptions(dom, "null",
                                        ticked.questions[ticked.currentQ + 1])
                          /\ timeouts' = Schedule(Elapse(timeouts),
                                                  TimeoutDelay)
                          /\ event' = [name |-> "timeout", pts |-> 0]
                ELSE /\ state' = StopTimer(ticked)
                     /\ timeouts' = Elapse(timeouts)
                     /\ UNCHANGED dom
                     /\ event' = [name |-> "tick", pts |-> 0]
           ELSE /\ state' = ticked
                /\ timeouts' = Elapse(timeouts)
                /\ UNCHANGED dom
                /\ event' = [name |-> "tick", pts |-> 0]
    /\ UNCHANGED <<awaiting, reported, started, serverVars, concVars>>

\* a selection that keeps the streak after a wrong answer
SelectedWrongKeepsStreak(st, isCorrect) ==
    LET streak == st.streak + 1
        pts == Points(st.timeLeft, streak)
    IN  IF isCorrect
        THEN [StopTimer(st) EXCEPT
                !.answered = TRUE,
                !.streak = streak,
                !.bestStreak = IF streak > @ THEN streak ELSE @,
                !.correctCount = @ + 1,
                !.levelScore = @ + pts,
                !.totalScore = @ + pts]
        ELSE [StopTimer(st) EXCEPT !.answered = TRUE]

\* a selection that never records the best streak
SelectedBestStreakStale(st, isCorrect) ==
    LET streak == st.streak + 1
        pts == Points(st.timeLeft, streak)
    IN  IF isCorrect
        THEN [StopTimer(st) EXCEPT
                !.answered = TRUE,
                !.streak = streak,
                !.correctCount = @ + 1,
                !.levelScore = @ + pts,
                !.totalScore = @ + pts]
        ELSE [StopTimer(st) EXCEPT !.answered = TRUE, !.streak = 0]

\* selectAnswer, lines 1109 and 1115-1125: what an honored selection does
\* to `state`
Selected(st, isCorrect) ==
    LET streak == st.streak + 1
        pts == Points(st.timeLeft, streak)
    IN  IF isCorrect
        THEN [StopTimer(st) EXCEPT
                !.answered = TRUE,
                !.streak = streak,
                !.bestStreak = IF streak > @ THEN streak ELSE @,
                !.correctCount = @ + 1,
                !.levelScore = @ + pts,
                !.totalScore = @ + pts]
        ELSE [StopTimer(st) EXCEPT !.answered = TRUE, !.streak = 0]

\* a selectAnswer without its first line
SelectAnswerUnguarded(idx) ==
    /\ dom.screen = "s-quiz"
    /\ dom.answer # "none"
    /\ LET isCorrect == Letters[idx + 1] = dom.answer
       IN  /\ state' = Selected(state, isCorrect)
           /\ dom' = LockOptions(dom, Letters[idx + 1], dom.answer)
           /\ timeouts' = Schedule(timeouts, AnswerDelay)
           /\ event' = [name |-> "selectAnswer",
                        pts |-> state'.levelScore - state.levelScore]
    /\ UNCHANGED <<awaiting, reported, started, serverVars, concVars>>

\* selectAnswer(idx, correctLetter, explanation), lines 1107-1127;
\* correctLetter is the answer the clicked option was rendered with
SelectAnswer(idx) ==
    /\ dom.screen = "s-quiz"
    /\ dom.answer # "none"
    /\ IF state.answered
       THEN \* `if (state.answered) return;`
            /\ event' = [name |-> "ignored", pts |-> 0]
            /\ UNCHANGED <<state, dom, timeouts>>
       ELSE LET isCorrect == Letters[idx + 1] = dom.answer
            IN  /\ state' = Selected(state, isCorrect)
                /\ dom' = LockOptions(dom, Letters[idx + 1], dom.answer)
                /\ timeouts' = Schedule(timeouts, AnswerDelay)
                /\ event' = [name |-> "selectAnswer",
                             pts |-> state'.levelScore - state.levelScore]
    /\ UNCHANGED <<awaiting, reported, started, serverVars, concVars>>

\* a nextQ that forgets state.currentQ++
NextQStuck ==
    /\ timeouts # <<>>
    /\ timeouts' = Tail(timeouts)
    /\ RenderQuestion(state, awaiting)
    /\ event' = [name |-> "nextQ", pts |-> 0]
    /\ UNCHANGED <<started, serverVars, concVars>>

\* nextQ(), lines 1145-1148, run by a setTimeout
NextQ ==
    /\ timeouts # <<>>
    /\ timeouts' = Tail(timeouts)
    /\ RenderQuestion([state EXCEPT !.currentQ = @ + 1], awaiting)
    /\ event' = [name |-> "nextQ", pts |-> 0]
    /\ UNCHANGED <<started, serverVars, concVars>>

\* Math.round((state.correctCount / state.questions.length) * 100)
Pct(correctCount, total) == (200 * correctCount + total) \div (2 * total)

\* thresholds compared with > instead of >=
VerdictStrict(pct) ==
    IF pct > 80 THEN 1 ELSE IF pct > 60 THEN 2
    ELSE IF pct > 40 THEN 3 ELSE 4

\* the tier of `verdicts.find(([min]) => pct >= min)`, 1 the highest
Verdict(pct) ==
    IF pct >= 80 THEN 1 ELSE IF pct >= 60 THEN 2
    ELSE IF pct >= 40 THEN 3 ELSE 4

\* endLevel(), lines 1158-1178: after the await of the score report.
\* With no questions pct is NaN, find() returns undefined and v[1] throws
\* before showScreen('s-result').
EndLevelShow ==
    /\ awaiting.submit > 0
    /\ awaiting' = [awaiting EXCEPT !.submit = @ - 1]
    /\ dom' = IF Len(state.questions) = 0 THEN dom
              ELSE [dom EXCEPT
                      !.screen = "s-result",
                      !.verdict = Verdict(Pct(state.correctCount,
                                              Len(state.questions)))]
    /\ event' = [name |-> "endLevel", pts |-> 0]
    /\ UNCHANGED <<state, timeouts, reported, started, serverVars, concVars>>

\* the NEXT LEVEL button of the result screen: showScreen('s-levels')
ShowLevels ==
    /\ dom.screen = "s-result"
    /\ dom' = [dom EXCEPT !.screen = "s-levels"]
    /\ event' = [name |-> "showLevels", pts |-> 0]
    /\ UNCHANGED <<state, timeouts, awaiting, reported, started, serverVars, concVars>>

\* div.onclick = () => selectAnswer(i, q.answer, q.explanation), for the
\* moments at which the user clicks
Click(idx) ==
    /\ state.timeLeft \in ClickTimes \/ ~state.timerInterval
    /\ SelectAnswer(idx)

NextSession ==
    \/ HandleRegister
    \/ \E level \in Levels : started < MaxLevels /\ StartLevel(level)
    \/ \E qs \in QuestionSets : QuestionsArrive(qs)
    \/ Tick
    \/ \E idx \in 0..3 : Click(idx)
    \/ NextQ
    \/ EndLevelShow
    \/ ShowLevels

\* ------------------------------------------- one level answered on a plan
\* the timeLeft at which the user clicks an option of question 1, 2, ...
PlanTimes == <<30, 25, 20, 15, 10>>

\* a click on option idx while the countdown of the question runs
ClickOnPlan(idx) ==
    /\ state.timerInterval
    /\ state.currentQ < Len(PlanTimes)
    /\ state.timeLeft = PlanTimes[state.currentQ + 1]
    /\ SelectAnswer(idx)

NextPlan ==
    \/ HandleRegister
    \/ \E level \in Levels : started < MaxLevels /\ StartLevel(level)
    \/ \E qs \in QuestionSets : QuestionsArrive(qs)
    \/ Tick
    \/ \E idx \in 0..3 : ClickOnPlan(idx)
    \/ NextQ
    \/ EndLevelShow
    \/ ShowLevels

\* the same with one more level started: a level is played and started again
NextReplay ==
    \/ HandleRegister
    \/ \E level \in Levels : started < MaxLevels + 1 /\ StartLevel(level)
    \/ \E qs \in QuestionSets : QuestionsArrive(qs)
    \/ Tick
    \/ \E idx \in 0..3 : ClickOnPlan(idx)
    \/ NextQ
    \/ EndLevelShow
    \/ ShowLevels

\* -------------------------------------------- levels of one or two questions
\* GET /questions passes on whatever array the generation replied with
ShortSets == {<<"D">>, <<"A", "B">>}

\* a whole session on such levels, a level more than once, with clicks at
\* any moment the options are shown
NextShort ==
    \/ HandleRegister
    \/ \E level \in Levels : started < MaxLevels + 1 /\ StartLevel(level)
    \/ \E qs \in ShortSets : QuestionsArrive(qs)
    \/ Tick
    \/ \E idx \in 0..3 : Click(idx)
    \/ NextQ
    \/ EndLevelShow
    \/ ShowLevels

\* ------------------------------------------------- levels of three questions
\* three questions are the fewest with which a question is rendered while
\* the countdown of the one before it runs
ThreeSets == {<<"A", "B", "C">>, <<"D", "D", "D">>}

\* such levels one after the other, with clicks at any moment the options
\* are shown
NextThree ==
    \/ HandleRegister
    \/ \E level \in Levels : started < MaxLevels /\ StartLevel(level)
    \/ \E qs \in ThreeSets : QuestionsArrive(qs)
    \/ Tick
    \/ \E idx \in 0..3 : Click(idx)
    \/ NextQ
    \/ EndLevelShow
    \/ ShowLevels

\* ------------------------------------ one selection at every second of a question
\* the state a level is in when question Len(h) + 1 has just been rendered,
\* after the questions before it were answered at once, h[i] telling whether
\* correctly
RECURSIVE Played(_, _)
Played(h, qs) ==
    IF Len(h) = 0
    THEN RenderState(
            [registered |-> TRUE, retriesLeft |-> InitialRetries,
             totalScore |-> 0, currentLevel |-> 1,
             questions |-> qs, currentQ |-> 0, levelScore |-> 0,
             correctCount |-> 0, streak |-> 0, bestStreak |-> 0,
             answered |-> FALSE, timerInterval |-> FALSE, countdowns |-> 0,
             timeLeft |-> QuestionSeconds, completedLevels |-> <<>>])
    ELSE LET before == Played(SubSeq(h, 1, Len(h) - 1), qs)
             after == Selected(before, h[Len(h)])
         IN  RenderState([after EXCEPT !.currentQ = @ + 1])

Histories == UNION {[1..q -> BOOLEAN] : q \in 0..4}

\* question Len(h) + 1 with t seconds left: the countdown is running, or it
\* has just run out (t = 0) and the time-up handler has run
InitScoring ==
    /\ \E h \in Histories, qs \in QuestionSets, t \in 0..QuestionSeconds :
          LET st == [Played(h, qs) EXCEPT !.timeLeft = t]
              d == RenderDom([screen |-> "s-quiz", answer |-> "none",
                             locked |-> FALSE, correct |-> {}, wrong |-> {},
                             verdict |-> 0], st)
          IN  IF t > 0
              THEN /\ state = st
                   /\ dom = d
                   /\ timeouts = <<>>
                   /\ event = [name |-> "tick", pts |-> 0]
              ELSE /\ state = [StopTimer(st) EXCEPT !.streak = 0]
                   /\ dom = LockOptions(d, "null", d.answer)
                   /\ timeouts = Schedule(<<>>, TimeoutDelay)
                   /\ event = [name |-> "timeout", pts |-> 0]
    /\ awaiting = [questions |-> 0, submit |-> 0]
    /\ reported = <<>>
    /\ started = 1
    /\ users = <<>>
    /\ now = 0
    /\ last = [op |-> "none", status |-> 0, id |-> 0, arg |-> NoRef,
               ret |-> 0, rows |-> <<>>, body |-> <<>>]
    /\ reqs = [r \in 1..MaxInflight |-> Idle]
    /\ finished = {}
    /\ credited = {}
    /\ job = IdleJob

NextScoring == \E idx \in 0..3 : SelectAnswer(idx)

\* --------------------------------------------- handlers running concurrently
\* Each handler is cut where it talks to the database: a query returns the
\* committed rows of that moment, the ORM keeps what it loaded, and a commit
\* writes the changed columns with the values the handler computed.

Quiescent == \A r \in 1..MaxInflight : reqs[r] = Idle

\* submit_score, line 1320: user = db.query(User).filter(User.id == user_id).first()
SubmitLoad(r, user_id, score) ==
    /\ reqs[r] = Idle
    /\ IF user_id \notin UserIds
       THEN UNCHANGED reqs
       ELSE reqs' = [reqs EXCEPT ![r] =
                [op |-> "submit_score", pc |-> "loaded", id |-> user_id,
                 score |-> score, refby |-> NoRef,
                 seen |-> users[user_id].score]]
    /\ UNCHANGED <<users, now, last, finished, credited, job, clientVars>>

\* submit_score, lines 1323-1326: the comparison uses the loaded score
SubmitStore(r) ==
    /\ reqs[r].op = "submit_score" /\ reqs[r].pc = "loaded"
    /\ users' = IF reqs[r].score > reqs[r].seen
                THEN [users EXCEPT ![reqs[r].id].score = reqs[r].score]
                ELSE users
    /\ finished' = finished \cup {<<reqs[r].id, reqs[r].score>>}
    /\ reqs' = [reqs EXCEPT ![r] = Idle]
    /\ last' = [op |-> "submit_score", status |-> 200, id |-> reqs[r].id,
                arg |-> reqs[r].score, ret |-> users'[reqs[r].id].score,
                rows |-> <<>>, body |-> <<>>]
    /\ UNCHANGED <<now, credited, job, clientVars>>

\* register, lines 1283-1292: insert the new row and commit
RegisterInsert(r, name, phone, refby, code) ==
    /\ reqs[r] = Idle
    /\ IF UniqueViolation(users, code)
       THEN UNCHANGED <<users, reqs>>
       ELSE /\ users' = Append(users, NewUser(name, phone, code, refby))
            /\ reqs' = IF Truthy(refby)
                       THEN [reqs EXCEPT ![r] =
                               [op |-> "register", pc |-> "inserted",
                                id |-> Len(users) + 1, score |-> 0,
                                refby |-> refby, seen |-> 0]]
                       ELSE reqs
    /\ UNCHANGED <<now, last, finished, credited, job, clientVars>>

\* register, lines 1295-1296: look the referrer up
RegisterLookup(r) ==
    /\ reqs[r].op = "register" /\ reqs[r].pc = "inserted"
    /\ LET ref == FindByCode(users, reqs[r].refby)
       IN  IF ref = 0
           THEN /\ reqs' = [reqs EXCEPT ![r] = Idle]
                /\ UNCHANGED credited
           ELSE /\ reqs' = [reqs EXCEPT ![r] =
                              [@ EXCEPT !.pc = "found", !.score = ref,
                                        !.seen = users[ref].retries_left]]
                /\ credited' = credited \cup {<<ref, reqs[r].id>>}
    /\ UNCHANGED <<users, now, last, finished, job, clientVars>>

\* register, lines 1297-1298: ref.retries_left += 1 on the loaded value, commit
RegisterCredit(r) ==
    /\ reqs[r].op = "register" /\ reqs[r].pc = "found"
    /\ users' = [users EXCEPT ![reqs[r].score].retries_left = reqs[r].seen + 1]
    /\ reqs' = [reqs EXCEPT ![r] = Idle]
    /\ last' = [op |-> "register", status |-> 200, id |-> reqs[r].id,
                arg |-> reqs[r].refby, ret |-> users'[reqs[r].id].retries_left,
                rows |-> <<>>, body |-> <<>>]
    /\ UNCHANGED <<now, finished, credited, job, clientVars>>

\* update_leaderboard_eligibility, lines 214-217: the query for the rows not
\* yet eligible, and the loop that picks the ones old enough
SweepLoad ==
    /\ job.pc = "idle"
    /\ job' = [pc |-> "loaded", loaded |-> users,
               flips |-> {i \in UserIds : /\ SweepSelects(users[i])
                                          /\ OldEnough(users[i], now)}]
    /\ UNCHANGED <<users, now, last, reqs, finished, credited, clientVars>>

\* a commit that writes back every column of the row as it was loaded
SweepWriteWholeRow(row, loaded) ==
    [loaded EXCEPT !.eligible_for_leaderboard = TRUE]

\* user.eligible_for_leaderboard = True: the commit updates the column that
\* was assigned, in the row as it is now
SweepWrite(row, loaded) ==
    [row EXCEPT !.eligible_for_leaderboard = TRUE]

\* update_leaderboard_eligibility, lines 218-219: the assignments are committed
SweepCommit ==
    /\ job.pc = "loaded"
    /\ users' = [i \in UserIds |->
                    IF i \in job.flips
                    THEN SweepWrite(users[i], job.loaded[i])
                    ELSE users[i]]
    /\ job' = [job EXCEPT !.pc = "idle"]
    /\ last' = [op |-> "sweep", status |-> 0, id |-> 0, arg |-> NoRef,
                ret |-> 0, rows |-> <<>>, body |-> <<>>]
    /\ UNCHANGED <<now, reqs, finished, credited, clientVars>>

ConcRefInputs == {NoRef, "AAAAAAAA"}

\* one user has registered, with the code AAAAAAAA
InitConcSweep ==
    /\ now = 0
    /\ users = <<NewUser("ama", "024", "AAAAAAAA", NoRef)>>
    /\ last = [op |-> "register", status |-> 200, id |-> 1, arg |-> NoRef,
               ret |-> InitialRetries, rows |-> <<>>, body |-> <<>>]
    /\ reqs = [r \in 1..MaxInflight |-> Idle]
    /\ finished = {}
    /\ credited = {}
    /\ job = IdleJob
    /\ InitClient

\* the sweep racing submit-score requests for that user and registrations
\* that name its code, before and after the user is two hours old
NextConcSweep ==
    \/ \E r \in 1..MaxInflight, name \in Names, phone \in Phones :
          RegisterInsert(r, name, phone, "AAAAAAAA", "BBBBBBBB")
    \/ \E r \in 1..MaxInflight : RegisterLookup(r)
    \/ \E r \in 1..MaxInflight : RegisterCredit(r)
    \/ \E r \in 1..MaxInflight : SubmitLoad(r, 1, 500)
    \/ \E r \in 1..MaxInflight : SubmitStore(r)
    \/ SweepLoad
    \/ SweepCommit
    \/ Advance(TwoHours)

\* submit-score requests racing each other, next to plain registrations
NextConcSubmit ==
    \/ \E r \in 1..MaxInflight, user_id \in 1..(Cardinality(Codes) + 1),
          score \in CandidateScores : SubmitLoad(r, user_id, score)
    \/ \E r \in 1..MaxInflight : SubmitStore(r)
    \/ \E r \in 1..MaxInflight, name \in Names, phone \in Phones,
          code \in Codes : RegisterInsert(r, name, phone, NoRef, code)

\* registrations racing each other
NextConcRegister ==
    \/ \E r \in 1..MaxInflight, name \in Names, phone \in Phones,
          refby \in ConcRefInputs, code \in MoreCodes :
          RegisterInsert(r, name, phone, refby, code)
    \/ \E r \in 1..MaxInflight : RegisterLookup(r)
    \/ \E r \in 1..MaxInflight : RegisterCredit(r)

\* ------------------------------------------- the leaderboard on larger tables
SmallTable == 4        \* tables of up to this many rows, every score and flag
ExtraRows == 2         \* tables of up to LeaderboardLimit + ExtraRows rows
TableScores == {10, 50, 200}

\* a row registered at minute 0 or 61 and read at minute MaxNow
TableCodes ==
    <<"TABLE001", "TABLE002", "TABLE003", "TABLE004", "TABLE005", "TABLE006",
      "TABLE007", "TABLE008", "TABLE009", "TABLE010", "TABLE011", "TABLE012",
      "TABLE013", "TABLE014", "TABLE015", "TABLE016">>

TableRow(i, score, eligible) ==
    [name |-> "ama", phone |-> "024", score |-> score,
     referral_code |-> TableCodes[i], referred_by |-> NoRef,
     retries_left |-> InitialRetries,
     eligible_for_leaderboard |-> eligible,
     created_at |-> IF eligible THEN 0 ELSE 61]

SmallTables ==
    UNION {{[i \in 1..n |-> TableRow(i, sc[i], el[i])] :
               sc \in [1..n -> TableScores], el \in [1..n -> BOOLEAN]} :
           n \in 0..SmallTable}

\* more rows than the limit: scores tie in pairs and rise with the row id,
\* at most one row (the one numbered out) is not eligible
LargeTables ==
    UNION {{[i \in 1..n |-> TableRow(i, 10 * ((i + 1) \div 2), i # out)] :
               out \in 0..n} :
           n \in (LeaderboardLimit + 1)..(LeaderboardLimit + ExtraRows)}

InitTables ==
    /\ users \in SmallTables \cup LargeTables
    /\ now = MaxNow
    /\ last = [op |-> "none", status |-> 0, id |-> 0, arg |-> NoRef,
               ret |-> 0, rows |-> <<>>, body |-> <<>>]
    /\ reqs = [r \in 1..MaxInflight |-> Idle]
    /\ finished = {}
    /\ credited = {}
    /\ job = IdleJob
    /\ InitClient

NextTables == Leaderboard

\* ------------------------------------------------------------ GET /questions
MaxReply == 6          \* items in an array the generation replies with

\* LEVEL_CONFIGS has the keys 1, 2 and 3
LevelConfigs == {1, 2, 3}
RequestLevels == 0..4

\* a question record is written as its answer letter, "x" is an item of
\* another shape; get_fallback_questions(): the same record 5 times
GetFallbackQuestions == <<"D", "D", "D", "D", "D">>
ReplyItems == {"D", "x"}

\* the texts the generation may reply with: a JSON array, a JSON object, or
\* text that is not JSON
ReplyTexts ==
    {[kind |-> "array", items |-> a] :
        a \in UNION {[1..n -> ReplyItems] : n \in 0..MaxReply}}
    \cup {[kind |-> "object", items |-> <<>>],
          [kind |-> "garbage", items |-> <<>>]}

\* response.choices[0].message.content.strip(): the text, with or without
\* a ``` fence around it and a json tag before it
Replies == [fence : BOOLEAN, tag : BOOLEAN, text : ReplyTexts]

\* what the generation does: it raises, or it replies
Outcomes == {[raised |-> TRUE, fence |-> FALSE, tag |-> FALSE,
              text |-> [kind |-> "garbage", items |-> <<>>]]}
            \cup {[raised |-> FALSE, fence |-> r.fence, tag |-> r.tag,
                   text |-> r.text] : r \in Replies}

\* lines 182-185: raw.split("```")[1] when the text starts with a fence,
\* then raw[4:] when what is left starts with json
StripFence(raw) ==
    IF raw.fence THEN [raw EXCEPT !.fence = FALSE, !.tag = FALSE] ELSE raw

\* json.loads(raw.strip()) raises on text that is not JSON
LoadsRaises(raw) == raw.tag \/ raw.text.kind = "garbage"

\* generate_campaign_questions(leader, level) past the LEVEL_CONFIGS lookup:
\* the value returned and whether the fallback was taken
GenerateCampaignQuestions(content, key, outcome) ==
    LET fallback == [kind |-> "array", items |-> GetFallbackQuestions,
                     failed |-> TRUE]
    IN  IF content = "" THEN fallback
        ELSE IF key = "" THEN fallback
        ELSE IF outcome.raised THEN fallback
        ELSE IF LoadsRaises(StripFence(outcome)) THEN fallback
        ELSE [kind |-> outcome.text.kind, items |-> outcome.text.items,
              failed |-> FALSE]

\* GET /questions?level=...: LEVEL_CONFIGS[level] raises KeyError for a level
\* that is no key, which the route does not catch
GetQuestions(level, content, key, outcome) ==
    /\ IF level \notin LevelConfigs
       THEN last' = [op |-> "questions", status |-> 500, id |-> level,
                     arg |-> "error", ret |-> 0, rows |-> <<>>, body |-> <<>>]
       ELSE LET q == GenerateCampaignQuestions(content, key, outcome)
            IN  last' = [op |-> "questions", status |-> 200, id |-> level,
                         arg |-> q.kind, ret |-> IF q.failed THEN 1 ELSE 0,
                         rows |-> <<>>, body |-> q.items]
    /\ UNCHANGED <<users, now, concVars, clientVars>>

NextQuestions ==
    \E level \in RequestLevels, content \in {"", "profile"},
       key \in {"", "sk"}, outcome \in Outcomes :
        GetQuestions(level, content, key, outcome)

\* ------------------------------------------------------- registrations alone
RegisterInputs == {<<"ama", "024">>, <<"", "024">>, <<"ama", "">>}

NextRegister ==
    \E np \in RegisterInputs, refby \in MoreCodes \cup {NoRef},
       code \in MoreCodes :
        Register(np[1], np[2], refby, code)

Init ==
    /\ users = <<>>
    /\ now = 0
    /\ last = [op |-> "none", status |-> 0, id |-> 0, arg |-> NoRef,
               ret |-> 0, rows |-> <<>>, body |-> <<>>]
    /\ reqs = [r \in 1..MaxInflight |-> Idle]
    /\ finished = {}
    /\ credited = {}
    /\ job = IdleJob
    /\ InitClient

Next ==
    \/ \E name \in Names, phone \in Phones, refby \in RefInputs, code \in Codes :
          Register(name, phone, refby, code)
    \/ \E user_id \in 1..(Cardinality(Codes) + 1), score \in CandidateScores :
          SubmitScore(user_id, score)
    \/ Sweep
    \/ Leaderboard
    \/ \E d \in Deltas : Advance(d)

\* ------------------------------------------------------------------ claims
MaxOf(S) == IF S = {} THEN 0 ELSE CHOOSE x \in S : \A y \in S : y <= x

\* C1: once the rendered question has been ended by the time running out
\* or by a selection, a later selection or time-up for it changes neither
\* the scores, the streaks, the correct count nor the revealed options.
C1_FirstEventWins ==
    [][(dom.locked /\ event'.name \in {"selectAnswer", "timeout"}) =>
         /\ state'.levelScore = state.levelScore
         /\ state'.totalScore = state.totalScore
         /\ state'.streak = state.streak
         /\ state'.bestStreak = state.bestStreak
         /\ state'.correctCount = state.correctCount
         /\ dom'.correct = dom.correct
         /\ dom'.wrong = dom.wrong]_vars

\* C2 as stated: a correct answer with t seconds left that makes the streak
\* s adds 100 + 3*t + (30 if s >= 3 else 0) points.
C2_StreakBonusThirty ==
    [][(event'.name = "selectAnswer"
          /\ state'.correctCount = state.correctCount + 1) =>
         state'.levelScore - state.levelScore =
            100 + 3 * state.timeLeft + (IF state'.streak >= 3 THEN 30 ELSE 0)]_vars

\* C2 as amended: a correct answer with t seconds left that makes the streak
\* s adds 100 + 3*t + (50 if s >= 3 else 0) points to the level score and to
\* the running total.
C2_PointsForCorrectAnswer ==
    [][(event'.name = "selectAnswer"
          /\ state'.correctCount = state.correctCount + 1) =>
         /\ state'.streak = state.streak + 1
         /\ state'.levelScore - state.levelScore =
              100 + 3 * state.timeLeft + (IF state'.streak >= 3 THEN 50 ELSE 0)
         /\ state'.totalScore - state.totalScore =
              state'.levelScore - state.levelScore]_vars

\* the fifth correct answer in a row, given with 15 seconds left: 195 points
C2_Witness ==
    /\ event.name = "selectAnswer" /\ event.pts = 195
    /\ state.timeLeft = 15 /\ state.streak = 5 /\ state.correctCount = 5

\* C3: with submit-score requests for one user interleaved, the stored score
\* never falls below the score of a request already answered, and once no
\* request is running it is the largest score submitted for that user.
C3_NoLostScoreUpdate ==
    \A u \in UserIds :
        LET answered == {p[2] : p \in {q \in finished : q[1] = u}}
        IN  /\ users[u].score >= MaxOf(answered)
            /\ Quiescent => users[u].score = MaxOf(answered)

\* C4: a submit-score handled on its own stores the candidate when it is
\* greater than the stored score and leaves the stored score alone otherwise,
\* and returns the stored score; so the same candidate twice, or a smaller
\* one after a larger one, changes nothing.
C4_SubmitScoreKeepsMax ==
    [][(last'.op = "submit_score" /\ last'.status = 200 /\ now' = now) =>
         LET u == last'.id
             x == last'.arg
         IN  /\ x > users[u].score => users'[u].score = x
             /\ x <= users[u].score => users'[u].score = users[u].score
             /\ last'.ret = users'[u].score
             /\ (last.op = "submit_score" /\ last.status = 200
                   /\ last.id = u /\ last.arg >= x)
                  => users'[u].score = users[u].score]_vars

\* 500 was stored, then 300 was submitted, and 500 is still stored
C4_Witness ==
    /\ last.op = "submit_score" /\ last.status = 200
    /\ last.arg = 300 /\ last.ret = 500
    /\ users[last.id].score = 500

\* C5: a registration naming the referral code of a user registered before
\* adds exactly 1 to that user's retries_left, leaves the new user's
\* retries_left at 1 and every other user's retries_left as it was.
C5_ReferralCredit ==
    [][Len(users') = Len(users) + 1 =>
         LET b == Len(users')
         IN  \A a \in 1..Len(users) :
                users[a].referral_code = users'[b].referred_by =>
                  /\ users'[a].retries_left = users[a].retries_left + 1
                  /\ users'[b].retries_left = 1
                  /\ \A c \in 1..Len(users) \ {a} :
                        users'[c].retries_left = users[c].retries_left]_vars

\* the third user named the first, who had been named before: 1 + 1 + 1
C5_Witness ==
    /\ Len(users) = 3
    /\ last.op = "register" /\ last.status = 200 /\ last.id = 3
    /\ users[3].referred_by = users[1].referral_code
    /\ users[1].retries_left = 3
    /\ users[2].retries_left = 1
    /\ users[3].retries_left = 1

\* C6: with registrations naming one existing user's code interleaved, once
\* no request is running that user's retries_left is its initial 1 plus one
\* for every registration whose lookup found the user.
C6_NoLostReferralCredit ==
    Quiescent =>
        \A u \in UserIds :
            LET found == {p \in credited : p[1] = u}
            IN  (\A p \in found : p[2] > u) =>
                    users[u].retries_left = 1 + Cardinality(found)

\* C7: a sweep leaves a user younger than two hours not eligible and makes
\* every user of two hours or more eligible; the flag turns true in sweeps
\* only, so no user younger than two hours is ever eligible.
C7_EligibleAfterTwoHours ==
    [][/\ \A u \in 1..Len(users') :
             users'[u].eligible_for_leaderboard =>
                now' - users'[u].created_at >= 120
       /\ (last'.op = "sweep" /\ now' = now) =>
             \A u \in 1..Len(users') :
                users'[u].eligible_for_leaderboard
                   <=> now - users'[u].created_at >= 120
       /\ \A u \in 1..Len(users) :
             (~users[u].eligible_for_leaderboard
                /\ users'[u].eligible_for_leaderboard) =>
                   last'.op = "sweep"]_vars

\* a sweep at minute 121: the user of minute 0 is in, the one of minute 60 is out
C7_Witness ==
    /\ last.op = "sweep" /\ now = 121 /\ Len(users) = 2
    /\ users[1].created_at = 0 /\ users[1].eligible_for_leaderboard
    /\ users[2].created_at = 60 /\ ~users[2].eligible_for_leaderboard

\* C8: a user is not eligible when created; an eligible user stays eligible
\* through every operation, and a sweep leaves an eligible user's row as it is.
C8_EligibilityRatchet ==
    [][/\ \A u \in 1..Len(users) :
             users[u].eligible_for_leaderboard =>
                /\ u <= Len(users')
                /\ users'[u].eligible_for_leaderboard
                /\ last'.op = "sweep" => users'[u] = users[u]
       /\ \A u \in (Len(users) + 1)..Len(users') :
             ~users'[u].eligible_for_leaderboard]_vars

\* an eligible user's score was raised after the flag had turned true
C8_Witness ==
    /\ last.op = "submit_score" /\ last.status = 200 /\ last.ret = 500
    /\ users[last.id].eligible_for_leaderboard
    /\ \E v \in UserIds : ~users[v].eligible_for_leaderboard

\* C9: every entry of a leaderboard response is the name and score of a user
\* whose flag is true when the response is made.
C9_OnlyEligibleListed ==
    last.op = "leaderboard" =>
        /\ Len(last.body) = Len(last.rows)
        /\ \A i \in 1..Len(last.rows) :
              /\ last.rows[i] \in UserIds
              /\ users[last.rows[i]].eligible_for_leaderboard
              /\ last.body[i].name = users[last.rows[i]].name
              /\ last.body[i].score = users[last.rows[i]].score

\* a user with the highest score is left out for not being eligible
C9_Witness ==
    /\ last.op = "leaderboard" /\ Len(last.body) = 1
    /\ \E v \in UserIds :
          /\ ~users[v].eligible_for_leaderboard
          /\ users[v].score > last.body[1].score

\* C10: a leaderboard response has at most 10 entries, in non-increasing
\* order of score, ranked 1..n in that order, and no eligible user left out
\* has a score greater than a listed one; eligible scores 50, 200, 200, 10
\* are listed as 200, 200, 50, 10.
C10_TopTenDescending ==
    last.op = "leaderboard" =>
        LET n == Len(last.body)
            eligible == {u \in UserIds : users[u].eligible_for_leaderboard}
            listed == {last.rows[i] : i \in 1..Len(last.rows)}
        IN  /\ n <= 10
            /\ \A i \in 1..n : last.body[i].rank = i
            /\ \A i \in 1..n, j \in 1..n :
                  i < j => last.body[i].score >= last.body[j].score
            /\ \A e \in eligible \ listed, i \in 1..n :
                  users[e].score <= last.body[i].score
            /\ (Len(users) = 4 /\ eligible = 1..4
                  /\ <<users[1].score, users[2].score,
                       users[3].score, users[4].score>> = <<50, 200, 200, 10>>)
                 => [i \in 1..n |-> last.body[i].score] = <<200, 200, 50, 10>>

\* twelve users are eligible, ten are listed and a tie was broken
C10_Witness ==
    /\ last.op = "leaderboard" /\ Len(last.body) = 10
    /\ Cardinality({u \in UserIds : users[u].eligible_for_leaderboard}) = 12
    /\ last.body[1].score = last.body[2].score
    /\ last.body[1].score > last.body[10].score

\* C11 as stated: a level of a fresh session whose 5 questions were all
\* answered correctly with 30, 25, 20, 15 and 10 seconds left ends with
\* level score 890.
C11_PerfectLevelScores890 ==
    (dom.screen = "s-result" /\ started = 1 /\ state.correctCount = 5) =>
        state.levelScore = 890

\* C11 as amended: that level ends with level score 950
\* (190 + 175 + 210 + 195 + 180), correctCount 5 and bestStreak 5; the
\* total of the session is the level score.
C11_PerfectLevelScores950 ==
    (dom.screen = "s-result" /\ started = 1 /\ state.correctCount = 5) =>
        /\ state.levelScore = 950
        /\ state.totalScore = 950
        /\ state.bestStreak = 5
        /\ state.streak = 5
        /\ reported = <<950>>

\* the result screen after the five correct answers
C11_Witness ==
    /\ dom.screen = "s-result" /\ started = 1
    /\ state.correctCount = 5 /\ state.currentQ = 5
    /\ state.levelScore = 950 /\ state.bestStreak = 5
    /\ dom.verdict = 1

\* C12: every user's retries_left is at least 0 after any sequence of
\* register (with or without a referral), submit-score and sweep.
C12_RetriesNeverNegative ==
    \A u \in UserIds : users[u].retries_left >= 0

\* a referrer credited once whose score was stored and whose flag was swept
C12_Witness ==
    /\ Len(users) = 2
    /\ users[2].referred_by = users[1].referral_code
    /\ users[1].retries_left = 2 /\ users[2].retries_left = 1
    /\ users[1].score = 500 /\ users[1].eligible_for_leaderboard
    /\ last.op = "sweep"

\* C13: a level that was completed is started again only by consuming a
\* retry: retriesLeft was above 0 and is one less afterwards.
C13_ReplayConsumesRetry ==
    [][(started' = started + 1
          /\ \E i \in 1..Len(state.completedLevels) :
                state.completedLevels[i] = state'.currentLevel) =>
         /\ state.retriesLeft > 0
         /\ state'.retriesLeft = state.retriesLeft - 1]_vars

\* C14: a registration that creates a user record had a name and a phone
\* that are not empty (one with an empty name or phone fails and creates
\* nothing).
C14_EmptyNameOrPhoneRejected ==
    [][(last'.op = "register" /\ Len(users') = Len(users) + 1) =>
         /\ users'[Len(users')].name # ""
         /\ users'[Len(users')].phone # ""]_vars

\* C15: a submit-score for an id that no stored user has answers 404 and
\* leaves the users table as it was; 404 is answered in that case only.
C15_UnknownUserNotFound ==
    [][(last'.op = "submit_score" /\ last' # last) =>
         /\ last'.id \notin UserIds =>
               (last'.status = 404 /\ users' = users)
         /\ last'.status = 404 => last'.id \notin UserIds]_vars

\* two users are stored, one with a score, and the id 3 was not found
C15_Witness ==
    /\ last.op = "submit_score" /\ last.status = 404 /\ last.id = 3
    /\ Len(users) = 2
    /\ users[1].score = 500 /\ users[2].score = 0

C18_ReferralCodeUnique ==
    [][/\ \A u \in 1..Len(users'), v \in 1..Len(users') :
             u # v => users'[u].referral_code # users'[v].referral_code
       /\ (last'.op = "register" /\ last'.status = 500) => users' = users]_vars

\* every code is taken and one more registration failed
C18_Witness ==
    /\ Len(users) = 3
    /\ last.op = "register" /\ last.status = 500
    /\ {users[u].referral_code : u \in UserIds} = MoreCodes

\* C20: a stored user keeps its place in the table (its id), its
\* referral_code, its referred_by and its created_at through every operation.
C20_IdentityImmutable ==
    [][\A u \in UserIds :
          /\ u <= Len(users')
          /\ users'[u].referral_code = users[u].referral_code
          /\ users'[u].referred_by = users[u].referred_by
          /\ users'[u].created_at = users[u].created_at]_vars

\* the first user after another registration naming it, a stored score, a
\* sweep that made it eligible and a leaderboard read
C20_Witness ==
    /\ last.op = "leaderboard" /\ Len(last.body) = 1
    /\ Len(users) = 2
    /\ users[1].created_at = 0 /\ users[1].referral_code = "AAAAAAAA"
    /\ users[1].eligible_for_leaderboard
    /\ users[1].score = 500 /\ users[1].retries_left = 2
    /\ users[2].referred_by = "AAAAAAAA" /\ users[2].created_at = 61

\* C17: the questions operation answers every request without an error and
\* with an array of exactly 5 question records, and with the fallback set
\* whenever the generation failed or was not available.
C17_AlwaysFiveQuestions ==
    last.op = "questions" =>
        /\ last.status = 200
        /\ last.arg = "array"
        /\ Len(last.body) = 5
        /\ \A i \in 1..Len(last.body) : last.body[i] # "x"
        /\ last.ret = 1 => last.body = GetFallbackQuestions

\* C19: with the sweep interleaved with submit-score requests and referral
\* credits, no write undoes the flag the sweep set, the sweep's commit sets
\* the flag of every row it picked and leaves every score and retries_left
\* as the other requests wrote them, and a submit-score or a credit writes
\* its value and leaves the other columns alone.
C19_SweepLosesNoUpdate ==
    [][/\ Len(users') >= Len(users)
       /\ \A u \in UserIds :
             users[u].eligible_for_leaderboard =>
                users'[u].eligible_for_leaderboard
       /\ (job.pc = "loaded" /\ job'.pc = "idle") =>
             \A u \in UserIds :
                /\ users'[u].score = users[u].score
                /\ users'[u].retries_left = users[u].retries_left
                /\ u \in job.flips => users'[u].eligible_for_leaderboard
       /\ \A r \in 1..MaxInflight :
             (reqs[r].pc = "loaded" /\ reqs'[r] = Idle) =>
                /\ reqs[r].score > reqs[r].seen =>
                      users'[reqs[r].id].score = reqs[r].score
                /\ \A u \in UserIds :
                      /\ users'[u].eligible_for_leaderboard =
                            users[u].eligible_for_leaderboard
                      /\ users'[u].retries_left = users[u].retries_left
       /\ \A r \in 1..MaxInflight :
             (reqs[r].pc = "found" /\ reqs'[r] = Idle) =>
                /\ users'[reqs[r].score].retries_left = reqs[r].seen + 1
                /\ \A u \in UserIds :
                      /\ users'[u].eligible_for_leaderboard =
                            users[u].eligible_for_leaderboard
                      /\ users'[u].score = users[u].score]_vars

\* the sweep loaded a row, a score and a referral credit were written to it,
\* then the sweep committed: the row has the flag, the score and the credit
C19_Witness ==
    /\ last.op = "sweep" /\ job.pc = "idle"
    /\ \E u \in job.flips :
          /\ job.loaded[u].score = 0 /\ job.loaded[u].retries_left = 1
          /\ users[u].eligible_for_leaderboard
          /\ users[u].score = 500 /\ users[u].retries_left = 2

\* C21: once a selection was honored for the question shown, a further
\* selection changes nothing: not the scores, the streaks, the correct
\* count, the question index, the revealed options or the pending nextQ.
C21_AnsweredIgnoresSelection ==
    [][(state.answered /\ event'.name \in {"selectAnswer", "ignored"}) =>
         /\ state' = state
         /\ dom' = dom
         /\ timeouts' = timeouts]_vars

\* a click after the third correct answer in a row was ignored
C21_Witness ==
    /\ event.name = "ignored" /\ state.answered
    /\ state.correctCount = 3 /\ state.streak = 3
    /\ state.timeLeft = 20 /\ state.levelScore = 190 + 190 + 210
    /\ Len(timeouts) = 1

\* C22: the time running out on the question shown resets the streak to 0,
\* leaves the scores, the correct count and the best streak as they were,
\* reveals the correct option and sets the answered flag.
C22_TimeoutMarksAnswered ==
    [][(state.timerInterval /\ state.timeLeft = 1
          /\ event'.name = "timeout" /\ state'.timeLeft = 0) =>
         /\ state'.streak = 0
         /\ state'.levelScore = state.levelScore
         /\ state'.totalScore = state.totalScore
         /\ state'.correctCount = state.correctCount
         /\ state'.bestStreak = state.bestStreak
         /\ dom'.correct = {dom.answer}
         /\ dom'.locked
         /\ state'.answered]_vars

\* C23: within a level the question index moves only from a question that
\* was answered or timed out, by exactly one and never past the number of
\* questions, and the question it moves to starts with answered = false
\* and 30 seconds; so every question is shown once, in order, none skipped.
C23_OneQuestionAtATime ==
    [][(started' = started /\ state'.currentQ # state.currentQ) =>
         /\ state'.currentQ = state.currentQ + 1
         /\ state'.currentQ <= Len(state.questions)
         /\ dom.locked /\ ~state.timerInterval
         /\ state'.currentQ < Len(state.questions) =>
               /\ ~state'.answered
               /\ state'.timeLeft = 30
               /\ state'.timerInterval]_vars

\* C24: a level that was started is completed at most once: there is at
\* most one entry in completedLevels and one score report for every level
\* start, and a score report carries the running total of that moment.
C24_LevelCompletesOnce ==
    [][/\ Len(state'.completedLevels) <= started'
       /\ Len(reported') <= started'
       /\ Len(reported') > Len(reported) =>
             /\ Len(reported') = Len(reported) + 1
             /\ Len(state'.completedLevels) = Len(state.completedLevels) + 1
             /\ reported'[Len(reported')] = state'.totalScore]_vars

\* C25: a selection made while the countdown of the question runs stops
\* the countdown and leaves exactly one nextQ pending; from then until the
\* next question is shown timeLeft does not change and no time-up handling
\* happens.
C25_SelectionStopsCountdown ==
    [][/\ (state.timerInterval /\ ~state.answered
            /\ event'.name = "selectAnswer" /\ state'.answered) =>
             /\ ~state'.timerInterval
             /\ Len(timeouts') = 1
       /\ (state.answered /\ started' = started
            /\ state'.currentQ = state.currentQ) =>
             /\ state'.timeLeft = state.timeLeft
             /\ state'.streak = state.streak
             /\ Len(timeouts') <= Len(timeouts)
             /\ event'.name \notin {"timeout", "tick"}]_vars

\* C26: a selection made while the countdown runs, of the option whose
\* letter is the question's answer, adds 1 to the correct count and to the
\* streak, makes the best streak the larger of itself and the new streak
\* and adds the same points to the level score and the running total; of
\* another option, it sets the streak to 0 and leaves the rest as it was.
C26_SelectionEffect ==
    [][(state.timerInterval /\ ~state.answered
          /\ event'.name = "selectAnswer" /\ state'.answered) =>
         IF dom'.wrong = {}
         THEN /\ dom'.correct = {dom.answer}
              /\ state'.correctCount = state.correctCount + 1
              /\ state'.streak = state.streak + 1
              /\ state'.bestStreak =
                    IF state'.streak > state.bestStreak
                    THEN state'.streak ELSE state.bestStreak
              /\ state'.levelScore > state.levelScore
              /\ state'.levelScore - state.levelScore =
                    state'.totalScore - state.totalScore
         ELSE /\ dom'.wrong \cap {dom.answer} = {}
              /\ state'.streak = 0
              /\ state'.correctCount = state.correctCount
              /\ state'.bestStreak = state.bestStreak
              /\ state'.levelScore = state.levelScore
              /\ state'.totalScore = state.totalScore]_vars

\* a wrong answer with 7 seconds left after two correct ones
C26_Witness ==
    /\ event.name = "selectAnswer" /\ event.pts = 0
    /\ dom.wrong # {} /\ state.timeLeft = 7
    /\ state.streak = 0 /\ state.bestStreak = 2 /\ state.correctCount = 2
    /\ state.levelScore = 190 + 190

\* C27: starting a level sets the question index, the level score, the
\* correct count, the streak and the best streak to 0 and answered to
\* false, and when its questions arrive the first question is shown with
\* these values and a countdown of 30 seconds.
C27_StartLevelResets ==
    [][/\ started' = started + 1 =>
             /\ state'.currentQ = 0 /\ state'.levelScore = 0
             /\ state'.correctCount = 0 /\ state'.streak = 0
             /\ state'.bestStreak = 0 /\ ~state'.answered
       /\ (awaiting'.questions < awaiting.questions) =>
             /\ state'.currentQ = 0 /\ state'.levelScore = 0
             /\ state'.correctCount = 0 /\ state'.streak = 0
             /\ state'.bestStreak = 0 /\ ~state'.answered
             /\ state'.timerInterval /\ state'.timeLeft = 30
             /\ dom'.answer = state'.questions[1] /\ ~dom'.locked]_vars

\* C28: on the result screen of a level of 5 questions the verdict is tier
\* 1 for 4 or 5 correct answers, tier 2 for 3, tier 3 for 2 and the lowest
\* tier for 0 or 1.
C28_VerdictTiers ==
    (dom.screen = "s-result" /\ Len(state.questions) = 5) =>
        /\ state.correctCount \in 0..5
        /\ dom.verdict = CASE state.correctCount \in {4, 5} -> 1
                            [] state.correctCount = 3 -> 2
                            [] state.correctCount = 2 -> 3
                            [] state.correctCount \in {0, 1} -> 4

\* three of the five answers were correct: the second tier
C28_Witness ==
    /\ dom.screen = "s-result" /\ Len(state.questions) = 5
    /\ state.currentQ = 5 /\ state.correctCount = 3 /\ dom.verdict = 2

\* C29: when the interval callbacks and the scheduled nextQ callbacks keep
\* running, a level whose 5 questions have arrived is completed (endLevel
\* is entered), whether the user clicks options or not.
C29_LevelEventuallyCompletes ==
    (Len(state.questions) = 5) ~> (Len(state.completedLevels) >= started)

\* a level completed with no point scored, its last question timed out
C29_Witness ==
    /\ Len(state.completedLevels) = 1 /\ started = 1
    /\ Len(state.questions) = 5 /\ state.currentQ = 5
    /\ state.levelScore = 0 /\ state.timeLeft = 0
    /\ dom.locked /\ dom.wrong = {}

\* C30: in every state of a session 0 <= streak <= bestStreak <=
\* correctCount <= the number of questions of the level that were answered,
\* timed out or passed over <= 5.
C30_CountersOrdered ==
    LET n == Len(state.questions)
        left == IF state.currentQ >= n THEN n
                ELSE state.currentQ + (IF dom.locked THEN 1 ELSE 0)
    IN  /\ 0 <= state.streak
        /\ state.streak <= state.bestStreak
        /\ state.bestStreak <= state.correctCount
        /\ state.correctCount <= left
        /\ left <= 5

\* C31: in every session state 0 <= timeLeft <= 30 and at most one countdown
\* runs (the one state.timerInterval names); the time-up handling runs only
\* in the interval callback that brings timeLeft from 1 to 0, with
\* state.answered false and the options of the question not locked by a
\* selection; and the points of a correct answer are 100 + 3 * timeLeft +
\* the streak bonus for the timeLeft the selection found.
C31_CountdownInvariants ==
    /\ [](/\ 0 <= state.timeLeft /\ state.timeLeft <= QuestionSeconds
          /\ state.countdowns <= 1
          /\ (state.countdowns = 1 <=> state.timerInterval))
    /\ [][/\ (event'.name \in {"timeout", "timeoutThrows"}
              => /\ state.timeLeft = 1 /\ state'.timeLeft = 0
                 /\ ~state.answered /\ ~dom.locked)
          /\ (event'.name = "selectAnswer" /\ event'.pts > 0
              => event'.pts = Points(state.timeLeft, state'.streak))]_vars

\* the countdown of a question ran out, the time-up handling ran, and a
\* correct selection that came after it scored for timeLeft 0 while the
\* auto-advance of the time-up is still pending
C31_Witness ==
    /\ event.name = "selectAnswer"
    /\ state.timeLeft = 0
    /\ event.pts = BasePoints
    /\ state.countdowns = 0
    /\ Len(timeouts) = 2

\* C32: no session event lowers state.totalScore; levelScore never exceeds
\* totalScore; startLevel leaves totalScore as it is and sets levelScore to
\* 0, and every other event keeps totalScore - levelScore, so that at level
\* completion totalScore is its value at the start of the level plus the
\* level's levelScore.
C32_TotalScoreAccumulates ==
    /\ [](0 <= state.levelScore /\ state.levelScore <= state.totalScore)
    /\ [][/\ state'.totalScore >= state.totalScore
          /\ IF event'.name = "startLevel"
             THEN /\ state'.totalScore = state.totalScore
                  /\ state'.levelScore = 0
             ELSE state'.totalScore - state'.levelScore
                     = state.totalScore - state.levelScore]_vars

\* a level that was started with points on the running total is complete:
\* its result screen shows a level score below the total that was reported
C32_Witness ==
    /\ dom.screen = "s-result"
    /\ Len(state.completedLevels) = 2
    /\ state.levelScore > 0
    /\ state.levelScore < state.totalScore
    /\ reported[Len(reported)] = state.totalScore

\* C33: with time advancing and the scheduled sweep running again and again,
\* every registered user whose second hour ends within the modelled time
\* eventually is eligible for the leaderboard, whatever registrations and
\* submit-score requests run next to the sweep and however often.
C33_EventuallyEligible ==
    \A i \in 1..Cardinality(Codes) :
        (i \in UserIds /\ users[i].created_at + TwoHours <= MaxNow)
            ~> (i \in UserIds /\ users[i].eligible_for_leaderboard)

\* two users registered before the two hours passed and both are eligible,
\* while a submit-score request is between its query and its commit and a
\* score was already stored
C33_Witness ==
    /\ Len(users) = 2
    /\ \A i \in UserIds : /\ users[i].created_at = 0
                           /\ users[i].eligible_for_leaderboard
    /\ now = TwoHours
    /\ finished # {}
    /\ \E r \in 1..MaxInflight : reqs[r].op = "submit_score"

\* ---------------------------------------------------------- specifications
Spec == Init /\ [][Next]_vars
SpecConcSubmit == Init /\ [][NextConcSubmit]_vars
SpecConcRegister == Init /\ [][NextConcRegister]_vars
SpecConcSweep == InitConcSweep /\ [][NextConcSweep]_vars
\* the scheduler runs the job every five minutes (line 225) and the clock
\* goes on
SpecConcSweepFair ==
    SpecConcSweep /\ WF_vars(SweepLoad) /\ WF_vars(SweepCommit)
                  /\ WF_vars(Advance(TwoHours))
SpecRegister == Init /\ [][NextRegister]_vars
SpecQuestions == Init /\ [][NextQuestions]_vars
SpecTables == InitTables /\ [][NextTables]_vars
SpecSession == Init /\ [][NextSession]_vars
SpecPlan == Init /\ [][NextPlan]_vars
SpecPlanFair == SpecPlan /\ WF_vars(Tick) /\ WF_vars(NextQ)
SpecSessionFair == SpecSession /\ WF_vars(Tick) /\ WF_vars(NextQ)
SpecReplay == Init /\ [][NextReplay]_vars
SpecShort == Init /\ [][NextShort]_vars
SpecThree == Init /\ [][NextThree]_vars
SpecScoring == InitScoring /\ [][NextScoring]_vars
====
